---- MODULE Spec2Model ----
(***************************************************************************)
(* Verification model of the quant-finance-toolkit scripts:                *)
(*   markowitz.py      return series, random portfolios, Sharpe optimizer  *)
(*   VaR.py            parametric Value-at-Risk and its download helper    *)
(*   VarMonteCarlo.py  Monte Carlo Value-at-Risk and its download helper   *)
(* The scripts share no state, so each gets its own specification over its *)
(* own variables.  Floating point values are modelled in fixed point or as *)
(* exact rationals; NaN and the infinities are explicit tagged values.     *)
(***************************************************************************)
EXTENDS Integers, Sequences, FiniteSets, TLC

VARIABLES
    unit,         \* which script / function this run exercises
    ret_data,     \* calculate_return: the price series passed in
    ret_result,   \* calculate_return: what the call produced
    var_in,       \* calculate_var_n: the arguments of the last call
    var_out,      \* calculate_var_n: the value it returned
    rng,          \* np.random: the state of the module-level generator
    mc_model,     \* the ValueAtRiskMonteCarlo object, once constructed
    mc_runs,      \* what each call of simulation() on it produced, in order
    np_empty,     \* what the installed numpy's percentile does with an empty array
    dl_call,      \* download_data(stock, ...): the helper, the ticker, the table yfinance returned
    dl_result,    \* download_data(stock, ...): what the call produced
    mk_data,      \* markowitz download_data: stock_data, one series per stock so far
    mk_summary,   \* markowitz download_data: lines appended to the summary file
    mk_result,    \* markowitz download_data: what the call produced
    gp_weights,   \* generate_portfolios: portfolio_weights, one vector per trial
    gp_result,    \* generate_portfolios: the weight array it returned
    optimum,      \* optimize_portfolio: the solver's result (x, success)
    printed,      \* print_optimal_portfolio: the weights and statistics it printed
    opt_summary   \* print_optimal_portfolio: lines appended to the summary file

retVars == <<ret_data, ret_result>>
varVars == <<var_in, var_out>>
mcVars == <<rng, mc_model, mc_runs, np_empty>>
dlVars == <<dl_call, dl_result, mk_data, mk_summary, mk_result>>
gpVars == <<gp_weights, gp_result>>
optVars == <<optimum, printed, opt_summary>>
vars == <<unit, ret_data, ret_result, var_in, var_out, rng, mc_model, mc_runs, np_empty,
          dl_call, dl_result, mk_data, mk_summary, mk_result,
          gp_weights, gp_result, optimum, printed, opt_summary>>

(***************************************************************************)
(* Bounds of the model.                                                    *)
(***************************************************************************)
MaxPrice == 3      \* prices are drawn from 0..MaxPrice
MaxLen == 4        \* price series hold at most MaxLen observations
MaxS == 3          \* positions (investment values) are drawn from 1..MaxS
MaxMu == 1         \* mean returns, in units of 1e-2, from -MaxMu..MaxMu
MaxSigma == 3      \* volatilities, in units of 1e-2, from 0..MaxSigma
MaxN == 3          \* horizons are drawn from 1..MaxN
MaxK == 2          \* scale factors applied to the position
RngMod == 8        \* the random generator has RngMod states
MaxIter == 3       \* Monte Carlo iteration counts are drawn from -1..MaxIter
MaxRuns == 2       \* simulation() calls recorded per object
MaxRows == 2       \* downloaded tables hold 0..MaxRows rows
NumStocks == 3     \* the model keeps the first NumStocks entries of `stocks`
NumPortfolios == 2 \* trials of generate_portfolios (NUM_PORTFOLIOS, 10000 in the script)
DrawDen == 3       \* np.random.random yields k/DrawDen, k in 0..DrawDen-1
MaxDen == 4        \* the solver returns weights n/d with d in 1..MaxDen

(***************************************************************************)
(* Floating point values: a finite number in units of 1e-4, NaN, or   *)
(* an infinity.                                                            *)
(***************************************************************************)
Scale == 10000
LnTerms == 40      \* terms of the series np.log is evaluated with

Fin(v) == [tag |-> "fin", v |-> v]
NaN == [tag |-> "nan", v |-> 0]
PosInf == [tag |-> "inf", v |-> 0]
NegInf == [tag |-> "ninf", v |-> 0]

\* A cell of a pandas Series of prices: a price, or the missing value NaN.
Cell(p) == [na |-> FALSE, p |-> p]
NACell == [na |-> TRUE, p |-> 0]

\* A quotient of two cells, kept exact.
Quot(n, d) == [tag |-> "fin", num |-> n, den |-> d]
QNaN == [tag |-> "nan", num |-> 0, den |-> 1]
QInf == [tag |-> "inf", num |-> 0, den |-> 1]

(***************************************************************************)
(* np.log of a positive rational a/b, in units of 1e-4:                      *)
(*   ln(a/b) = 2 * atanh((a-b)/(a+b)) = 2 * sum_{k odd} y^k / k            *)
(* evaluated for a >= b and negated otherwise.                             *)
(***************************************************************************)
RECURSIVE AtanhSum(_, _, _, _)
AtanhSum(pow, ysq, k, left) ==
    IF left = 0 \/ pow = 0 THEN 0
    ELSE (pow \div k) + AtanhSum((pow * ysq) \div Scale, ysq, k + 2, left - 1)

LnScaledGE(a, b) ==
    LET y == ((a - b) * Scale) \div (a + b)
        ysq == (y * y) \div Scale
    IN  2 * AtanhSum(y, ysq, 1, LnTerms)

LnScaled(a, b) == IF a >= b THEN LnScaledGE(a, b) ELSE 0 - LnScaledGE(b, a)

\* data.shift(1): every observation moves one row down, the first row is NaN.
Shift1(data) ==
    IF Len(data) = 0 THEN <<>>
    ELSE <<NACell>> \o SubSeq(data, 1, Len(data) - 1)

\* x / y on two cells (IEEE division: NaN propagates, x/0 is inf, 0/0 is NaN).
Divide(x, y) ==
    IF x.na \/ y.na THEN QNaN
    ELSE IF y.p = 0 THEN (IF x.p = 0 THEN QNaN ELSE QInf)
    ELSE Quot(x.p, y.p)

\* np.log on one quotient (log(0) is -inf).
Log(q) ==
    IF q.tag = "nan" THEN NaN
    ELSE IF q.tag = "inf" THEN PosInf
    ELSE IF q.num = 0 THEN NegInf
    ELSE Fin(LnScaled(q.num, q.den))

\* Mutant of the slice: series[:-1] keeps the first row and drops the last.
DropLast(s) == IF Len(s) = 0 THEN <<>> ELSE SubSeq(s, 1, Len(s) - 1)

\* series[1:]
DropFirst(s) == IF Len(s) = 0 THEN <<>> ELSE SubSeq(s, 2, Len(s))

\* calculate_return(data): np.log(data / data.shift(1))[1:]
calculate_return(data) ==
    LET shifted == Shift1(data)
        log_return == [i \in 1..Len(data) |-> Log(Divide(data[i], shifted[i]))]
    IN  [status |-> "ok", value |-> DropFirst(log_return)]

NotCalled == [status |-> "none", value |-> <<>>]

RECURSIVE SeqsUpTo(_, _)
SeqsUpTo(S, n) ==
    IF n = 0 THEN {<<>>}
    ELSE LET shorter == SeqsUpTo(S, n - 1)
         IN  shorter \cup {Append(s, x) : s \in {t \in shorter : Len(t) = n - 1}, x \in S}

PriceCells == {Cell(p) : p \in 0..MaxPrice}
PriceSeries == SeqsUpTo(PriceCells, MaxLen)

(***************************************************************************)
(* VaR.py: parametric Value-at-Risk.                                       *)
(***************************************************************************)

\* The confidence levels the model draws, in percent.
ConfLevels == {1, 5, 10, 25, 50, 75, 90, 95, 99}

\* scipy.stats.norm.ppf(c) at those levels, in units of 1e-3.
norm_ppf(c) ==
    CASE c = 1 -> -2326
      [] c = 5 -> -1645
      [] c = 10 -> -1282
      [] c = 25 -> -674
      [] c = 50 -> 0
      [] c = 75 -> 674
      [] c = 90 -> 1282
      [] c = 95 -> 1645
      [] c = 99 -> 2326

\* np.sqrt(n) for n >= 0, in units of 1e-2 (rounded down).
SqrtTable == [n \in 0..(MaxN + 1) |->
                 CHOOSE r \in 0..(100 * (n + 1)) :
                     r * r <= n * 10000 /\ (r + 1) * (r + 1) > n * 10000]

np_sqrt(n) == SqrtTable[n]

\* Mutant of calculate_var_n: the quantile is taken at the wrong tail,
\* norm.ppf(1 - c).
calculate_var_n_wrong_tail(position, c, mu, sigma, n) ==
    LET z == norm_ppf(100 - c)
    IN  position * (z * sigma * np_sqrt(n) - mu * n * 100000)

\* calculate_var_n(position, c, mu, sigma, n):
\*   z = norm.ppf(c); var = position * (z * sigma * np.sqrt(n) - mu * n)
\* mu and sigma are in units of 1e-2, so the result is in units of 1e-7.
calculate_var_n(position, c, mu, sigma, n) ==
    LET z == norm_ppf(c)
    IN  position * (z * sigma * np_sqrt(n) - mu * n * 100000)

VarArgs == [position : 1..MaxS, c : ConfLevels, mu : (0 - MaxMu)..MaxMu,
            sigma : 0..MaxSigma, n : 1..MaxN]

NoArgs == [position |-> 0, c |-> 0, mu |-> 0, sigma |-> 0, n |-> 0]

\* The script evaluates the function once per run.
CalculateVarN ==
    /\ unit = "var"
    /\ var_in = NoArgs
    /\ \E a \in VarArgs :
        /\ var_in' = a
        /\ var_out' = calculate_var_n(a.position, a.c, a.mu, a.sigma, a.n)
    /\ UNCHANGED <<unit, gpVars, optVars, retVars, mcVars, dlVars>>

NextVaR == CalculateVarN

(***************************************************************************)
(* VarMonteCarlo.py: Monte Carlo Value-at-Risk.                            *)
(* mu is in units of 1e-2, sigma in units of 1e-1, c in percent; prices    *)
(* and the result are in units of 1e-4.                                    *)
(***************************************************************************)

\* The module-level generator: every variate drawn advances its state.
NextRng(s) == (5 * s + 3) % RngMod

\* The standard normal variate the generator yields in state s (whole
\* standard deviations, -2..2).
NormalOf(s) == (s % 5) - 2

\* np.random.normal(0, 1, k) from state s, for k >= 0: the k variates.
RECURSIVE Normals(_, _)
Normals(s, k) ==
    IF k = 0 THEN <<>> ELSE <<NormalOf(s)>> \o Normals(NextRng(s), k - 1)

\* The generator's state after k variates.
RECURSIVE Advance(_, _)
Advance(s, k) == IF k = 0 THEN s ELSE Advance(NextRng(s), k - 1)

\* np.exp(x) for x >= 0 in units of 1e-4: the Taylor series.
RECURSIVE ExpSum(_, _, _)
ExpSum(term, x, k) ==
    IF term = 0 THEN 0
    ELSE term + ExpSum((term * x) \div (Scale * k), x, k + 1)

\* np.exp(x), x in units of 1e-4.
np_exp(x) ==
    IF x >= 0 THEN ExpSum(Scale, x, 1)
    ELSE (Scale * Scale) \div ExpSum(Scale, 0 - x, 1)

\* Insert v in the ascending sequence a.
RECURSIVE Insert(_, _)
Insert(a, v) ==
    IF Len(a) = 0 THEN <<v>>
    ELSE IF v <= a[1] THEN <<v>> \o a
    ELSE <<a[1]>> \o Insert(Tail(a), v)

RECURSIVE Sorted(_)
Sorted(a) == IF Len(a) = 0 THEN <<>> ELSE Insert(Sorted(Tail(a)), a[1])

\* np.percentile(a, q) on a non-empty array of finite values, 0 <= q <= 100:
\* linear interpolation between the order statistics around (len-1)*q/100.
Percentile(a, q) ==
    LET srt == Sorted(a)
        h == (Len(a) - 1) * q
        lo == h \div 100
        fr == h % 100
    IN  IF fr = 0 THEN srt[lo + 1]
        ELSE srt[lo + 1] + (fr * (srt[lo + 2] - srt[lo + 1])) \div 100

Ok(v) == [status |-> "ok", value |-> v]
Raised(e) == [status |-> e, value |-> NaN]

\* ValueAtRiskMonteCarlo.simulation() on object m with the generator in
\* state s.  `onEmpty` is what np.percentile does with an empty array, which
\* depends on the numpy release: "nan" (returns NaN) or "IndexError".
simulation(m, s, onEmpty) ==
    IF m.iterations < 0 THEN Raised("ValueError")   \* np.random.normal: negative dimensions
    ELSE IF 100 - m.c < 0 \/ 100 - m.c > 100 THEN Raised("ValueError")  \* np.percentile: q out of range
    ELSE IF m.iterations = 0 THEN
        (IF onEmpty = "nan" THEN Ok(NaN) ELSE Raised("IndexError"))
    ELSE IF m.n < 0 THEN Ok(NaN)                     \* np.sqrt of a negative number is NaN
    ELSE
        LET rand == Normals(s, m.iterations)
            drift == m.n * (m.mu * 100 - 50 * m.sigma * m.sigma)
            stock_prices == [k \in 1..m.iterations |->
                (m.S * np_exp(drift + m.sigma * 10 * np_sqrt(m.n) * rand[k]))]
            percentile_price == Percentile(stock_prices, 100 - m.c)
        IN  Ok(Fin(m.S * Scale - percentile_price))

\* The generator after simulation(): np.random.normal has drawn `iterations`
\* variates unless it raised.
RngAfter(m, s) == IF m.iterations < 0 THEN s ELSE Advance(s, m.iterations)

MCConf == {-5, 0, 5, 50, 95, 100, 105}

MCArgs == [S : 1..MaxS, mu : {0, MaxMu}, sigma : -1..MaxSigma, c : MCConf,
           n : -1..MaxN, iterations : -1..MaxIter]

NoModel == [S |-> 0, mu |-> 0, sigma |-> 0, c |-> 0, n |-> 0, iterations |-> 0]

\* ValueAtRiskMonteCarlo.__init__: stores its arguments.
Construct ==
    /\ unit = "mc"
    /\ mc_model = NoModel
    /\ \E a \in MCArgs : mc_model' = a
    /\ UNCHANGED <<unit, gpVars, optVars, retVars, varVars, dlVars, rng, mc_runs, np_empty>>

Simulation ==
    /\ unit = "mc"
    /\ mc_model # NoModel
    /\ Len(mc_runs) < MaxRuns
    /\ mc_runs' = Append(mc_runs, simulation(mc_model, rng, np_empty))
    /\ rng' = RngAfter(mc_model, rng)
    /\ UNCHANGED <<unit, gpVars, optVars, retVars, varVars, dlVars, mc_model, np_empty>>

\* Any other draw from the module-level generator.
OtherDraw ==
    /\ unit = "mc"
    /\ Len(mc_runs) < MaxRuns
    /\ rng' = NextRng(rng)
    /\ UNCHANGED <<unit, gpVars, optVars, retVars, varVars, dlVars, mc_model, mc_runs, np_empty>>

NextMC == Construct \/ Simulation \/ OtherDraw

(***************************************************************************)
(* The download helpers.  A table is what yfinance hands back: None, or a  *)
(* frame with a number of rows and a set of column keys.  A flat frame has *)
(* keys <<field>>; a hierarchical frame has keys <<field, ticker>> or      *)
(* <<ticker, field>>.                                                      *)
(***************************************************************************)
Fields == {"Adj Close", "Close", "Open"}
Tickers == {"C", "MSFT"}

NoneTable == [kind |-> "none", rows |-> 0, cols |-> {}]
FlatTables == [kind : {"flat"}, rows : 0..MaxRows,
               cols : SUBSET {<<f>> : f \in Fields}]
MultiTables ==
    [kind : {"multi"}, rows : 0..MaxRows,
     cols : (SUBSET {<<f, t>> : f \in Fields, t \in Tickers})
            \cup (SUBSET {<<t, f>> : f \in Fields, t \in Tickers})]
Tables == {NoneTable} \cup FlatTables \cup MultiTables

NoFrame == [name |-> "", col |-> <<>>, rows |-> 0]
Returned(f) == [status |-> "ok", frame |-> f]
Failed(e) == [status |-> e, frame |-> NoFrame]

\* Mutant of the candidate order: 'Close' is tried before 'Adj Close'.
close_first_candidates == <<"Close", "Adj Close">>

price_field_candidates == <<"Adj Close", "Close">>

\* The hierarchical branch: for each candidate field in order, the key
\* (field, stock) and then the key (stock, field); <<>> when none is found.
RECURSIVE FindMultiCol(_, _, _)
FindMultiCol(fields, stock, cols) ==
    IF Len(fields) = 0 THEN <<>>
    ELSE IF <<fields[1], stock>> \in cols THEN <<fields[1], stock>>
    ELSE IF <<stock, fields[1]>> \in cols THEN <<stock, fields[1]>>
    ELSE FindMultiCol(Tail(fields), stock, cols)

\* The flat branch: next((f for f in candidates if f in ticker.columns), None).
RECURSIVE FindFlatField(_, _)
FindFlatField(fields, cols) ==
    IF Len(fields) = 0 THEN <<>>
    ELSE IF <<fields[1]>> \in cols THEN <<fields[1]>>
    ELSE FindFlatField(Tail(fields), cols)

\* download_data(stock, start, end) of VaR.py and of VarMonteCarlo.py, on the
\* table yf.download returned.
download_data(stock, ticker) ==
    IF ticker.kind = "none" \/ ticker.rows = 0 THEN Failed("ValueError")
    ELSE LET col == IF ticker.kind = "multi"
                    THEN FindMultiCol(price_field_candidates, stock, ticker.cols)
                    ELSE FindFlatField(price_field_candidates, ticker.cols)
         IN  IF col = <<>> THEN Failed("KeyError")
             ELSE Returned([name |-> stock, col |-> col, rows |-> ticker.rows])

NoCall == [helper |-> "none", stock |-> "", ticker |-> NoneTable]

\* VaR.py __main__: stock_data = download_data(stock, start, end)
DownloadVaR ==
    /\ unit = "download"
    /\ dl_call = NoCall /\ mk_result.status = "none" /\ mk_data = <<>>
    /\ \E stock \in Tickers, t \in Tables :
        /\ dl_call' = [helper |-> "VaR", stock |-> stock, ticker |-> t]
        /\ dl_result' = download_data(stock, t)
    /\ UNCHANGED <<unit, gpVars, optVars, retVars, varVars, mcVars, mk_data, mk_summary, mk_result>>

\* VarMonteCarlo.py __main__: citi = download_data(stock, start_date, end_date)
DownloadMC ==
    /\ unit = "download"
    /\ dl_call = NoCall /\ mk_result.status = "none" /\ mk_data = <<>>
    /\ \E stock \in Tickers, t \in Tables :
        /\ dl_call' = [helper |-> "VarMonteCarlo", stock |-> stock, ticker |-> t]
        /\ dl_result' = download_data(stock, t)
    /\ UNCHANGED <<unit, gpVars, optVars, retVars, varVars, mcVars, mk_data, mk_summary, mk_result>>

\* markowitz.py: the tickers of `stocks` the model keeps.
StockNames == <<"MOTHERSON.NS", "RVNL.NS", "JPPOWER.NS", "HINDCOPPER.NS",
                "BEL.NS", "ITC.NS">>
stocks == SubSeq(StockNames, 1, NumStocks)

\* hist['Close'] of a history table, and pd.Series(dtype=float).
CloseSeries(hist) == [field |-> "Close", rows |-> hist.rows, hist_rows |-> hist.rows]
EmptySeries(hist) == [field |-> "empty", rows |-> 0, hist_rows |-> hist.rows]

\* markowitz download_data, one pass of the loop over `stocks` for a history
\* table `hist`: a missing 'Close' column is noted in the summary file and
\* replaced by an empty series.
MkDownloadStock ==
    /\ unit = "download"
    /\ dl_call = NoCall /\ mk_result.status = "none"
    /\ Len(mk_data) < Len(stocks)
    /\ \E hist \in FlatTables :
        LET stock == stocks[Len(mk_data) + 1] IN
        IF <<"Close">> \notin hist.cols
        THEN /\ mk_summary' = Append(mk_summary, <<"Warning: 'Close' column not found", stock>>)
             /\ mk_data' = Append(mk_data, EmptySeries(hist))
        ELSE /\ mk_summary' = mk_summary
             /\ mk_data' = Append(mk_data, CloseSeries(hist))
    /\ UNCHANGED <<unit, gpVars, optVars, retVars, varVars, mcVars, dl_call, dl_result, mk_result>>

\* markowitz download_data: return pd.DataFrame(stock_data)
MkDownloadReturn ==
    /\ unit = "download"
    /\ mk_result.status = "none"
    /\ Len(mk_data) = Len(stocks)
    /\ mk_result' = [status |-> "ok", frame |-> mk_data]
    /\ UNCHANGED <<unit, gpVars, optVars, retVars, varVars, mcVars, dl_call, dl_result, mk_data, mk_summary>>

NextDownload == DownloadVaR \/ DownloadMC \/ MkDownloadStock \/ MkDownloadReturn

(***************************************************************************)
(* markowitz.py: the random portfolio sampler.  The return and risk        *)
(* columns it also builds are functions of the weights and of the returns  *)
(* argument alone and are left out; the weights are exact rationals.       *)
(***************************************************************************)

RECURSIVE SumSeq(_)
SumSeq(a) == IF Len(a) = 0 THEN 0 ELSE a[1] + SumSeq(Tail(a))

\* np.random.random(len(stocks)): every outcome of the uniform draws, as
\* numerators over DrawDen.
UniformDraws == [1..Len(stocks) -> 0..(DrawDen - 1)]

\* w /= np.sum(w): each draw over the sum of the draws; 0/0 is NaN.
Normalize(w) ==
    LET total == SumSeq(w)
    IN  [i \in 1..Len(w) |-> IF total = 0 THEN QNaN ELSE Quot(w[i], total)]

\* One pass of the loop of generate_portfolios.
GenerateTrial ==
    /\ unit = "sampler"
    /\ gp_result.status = "none"
    /\ Len(gp_weights) < NumPortfolios
    /\ \E w \in UniformDraws : gp_weights' = Append(gp_weights, Normalize(w))
    /\ UNCHANGED <<unit, retVars, varVars, mcVars, dlVars, optVars, gp_result>>

\* return np.array(portfolio_weights), ...
GenerateReturn ==
    /\ unit = "sampler"
    /\ gp_result.status = "none"
    /\ Len(gp_weights) = NumPortfolios
    /\ gp_result' = [status |-> "ok", value |-> gp_weights]
    /\ UNCHANGED <<unit, retVars, varVars, mcVars, dlVars, optVars, gp_weights>>

NextSampler == GenerateTrial \/ GenerateReturn

(***************************************************************************)
(* markowitz.py: the optimizer driver.  A solver vector is a sequence of   *)
(* numerators over one denominator; printed weights are in thousandths.    *)
(***************************************************************************)

\* The vectors the solver can hand back: every entry within its (0, 1) bound.
SolverVectors ==
    UNION {[nums : [1..Len(stocks) -> 0..d], den : {d}] : d \in 1..MaxDen}

\* optimization.minimize(fun=min_function_sharpe, x0=..., method='SLSQP',
\* bounds=bounds, constraints=constraints): the external solver, any vector
\* within the bounds with either convergence flag.
minimize(x0) == [x : SolverVectors, success : BOOLEAN]

\* optimize_portfolio(weights, returns): the solver's result, as it is.
optimize_portfolio(weights) == minimize(weights[1])

\* Mutant of the rounding: every weight is rounded up to the next thousandth.
RoundUp3(n, d) == ((1000 * n) + d - 1) \div d

\* round(3) of n/d, in thousandths: np.round goes to the nearest thousandth,
\* a tie to the even one.
Round3(n, d) ==
    LET q == (1000 * n) \div d
        r == (1000 * n) % d
    IN  IF 2 * r < d THEN q
        ELSE IF 2 * r > d THEN q + 1
        ELSE IF q % 2 = 0 THEN q ELSE q + 1

\* optimum['x'].round(3)
RoundWeights(x) == [i \in 1..Len(x.nums) |-> Round3(x.nums[i], x.den)]

\* statistics(weights, returns): return, volatility and Sharpe ratio of the
\* weights it is given (the numbers themselves are not modelled).
statistics(weights) == [of |-> weights]

NoOptimum == [called |-> FALSE, x |-> [nums |-> <<>>, den |-> 1], success |-> FALSE]
NotPrinted == [done |-> FALSE, weights |-> <<>>, stats |-> statistics(<<>>)]

\* __main__: optimum = optimize_portfolio(pweights, log_daily_returns)
OptimizePortfolio ==
    /\ unit = "optimizer"
    /\ ~optimum.called
    /\ \E w \in UniformDraws :
       \E res \in optimize_portfolio(<<Normalize(w)>>) :
           optimum' = [called |-> TRUE, x |-> res.x, success |-> res.success]
    /\ UNCHANGED <<unit, retVars, varVars, mcVars, dlVars, gpVars, printed, opt_summary>>

\* print_optimal_portfolio(optimum, returns)
PrintOptimalPortfolio ==
    /\ unit = "optimizer"
    /\ optimum.called /\ ~printed.done
    /\ LET weights == RoundWeights(optimum.x)
           stats == statistics(weights)
       IN  /\ printed' = [done |-> TRUE, weights |-> weights, stats |-> stats]
           /\ opt_summary' = opt_summary \o
                  << <<"Optimal portfolio weights:", weights>>,
                     <<"Optimal portfolio stats [return, volatility, sharpe]:", stats>> >>
    /\ UNCHANGED <<unit, retVars, varVars, mcVars, dlVars, gpVars, optimum>>

NextOptimizer == OptimizePortfolio \/ PrintOptimalPortfolio

(***************************************************************************)
(* Initial state and specifications.                                       *)
(***************************************************************************)
Units == {"returns", "var", "mc", "download", "sampler", "optimizer"}

InitUnit(u) ==
    /\ unit = u
    /\ ret_data = <<>>
    /\ ret_result = NotCalled
    /\ var_in = NoArgs
    /\ var_out = 0
    /\ rng \in (IF u = "mc" THEN 0..(RngMod - 1) ELSE {0})
    /\ mc_model = NoModel
    /\ mc_runs = <<>>
    /\ np_empty \in (IF u = "mc" THEN {"nan", "IndexError"} ELSE {"nan"})
    /\ dl_call = NoCall
    /\ dl_result = [status |-> "none", frame |-> NoFrame]
    /\ mk_data = <<>>
    /\ mk_summary = <<>>
    /\ mk_result = [status |-> "none", frame |-> <<>>]
    /\ gp_weights = <<>>
    /\ gp_result = NotCalled
    /\ optimum = NoOptimum
    /\ printed = NotPrinted
    /\ opt_summary = <<>>

Init == \E u \in Units : InitUnit(u)

\* The script builds the return series once per run.
CalculateReturn ==
    /\ unit = "returns"
    /\ ret_result = NotCalled
    /\ \E data \in PriceSeries :
        /\ ret_data' = data
        /\ ret_result' = calculate_return(data)
    /\ UNCHANGED <<unit, gpVars, optVars, varVars, mcVars, dlVars>>

NextReturns == CalculateReturn

Next == NextReturns \/ NextVaR \/ NextMC \/ NextDownload \/ NextSampler \/ NextOptimizer

Spec == Init /\ [][Next]_vars
SpecReturns == InitUnit("returns") /\ [][NextReturns]_vars
SpecVaR == InitUnit("var") /\ [][NextVaR]_vars
SpecMC == InitUnit("mc") /\ [][NextMC]_vars
SpecDownload == InitUnit("download") /\ [][NextDownload]_vars
SpecSampler == InitUnit("sampler") /\ [][NextSampler]_vars
SpecOptimizer == InitUnit("optimizer") /\ [][NextOptimizer]_vars

(***************************************************************************)
(* Claims about calculate_return.                                          *)
(***************************************************************************)
ReturnCalled == ret_result.status # "none"
AllPositive(data) == \A i \in 1..Len(data) : data[i].p > 0

\* C1: for every price series of length N >= 2 with strictly positive
\* prices, calculate_return produces exactly N-1 values, the i-th being
\* ln(price[i+1] / price[i]); the row of the first observation (the NaN
\* that shift(1) puts there) is dropped and never appears in the output.
C1_ReturnsAreLogRatios ==
    (ReturnCalled /\ Len(ret_data) >= 2 /\ AllPositive(ret_data)) =>
        /\ ret_result.status = "ok"
        /\ Len(ret_result.value) = Len(ret_data) - 1
        /\ \A i \in 1..(Len(ret_data) - 1) :
               ret_result.value[i] = Fin(LnScaled(ret_data[i + 1].p, ret_data[i].p))
        /\ \A i \in 1..Len(ret_result.value) : ret_result.value[i].tag # "nan"

\* C1 witness: a three-observation series that rises and then falls.
C1_Witness ==
    /\ ReturnCalled
    /\ Len(ret_data) = 3 /\ AllPositive(ret_data)
    /\ ret_data[1].p < ret_data[2].p /\ ret_data[3].p < ret_data[2].p
    /\ Len(ret_result.value) = 2
    /\ ret_result.value[1].v > 0 /\ ret_result.value[2].v < 0

\* C5: calculate_return fails with an insufficient-data error when the
\* price series has fewer than 2 observations, instead of returning an
\* empty or non-finite return series.
C5_ShortSeriesFails ==
    (ReturnCalled /\ Len(ret_data) < 2) =>
        ret_result.status = "InsufficientDataError"

(***************************************************************************)
(* Claims about calculate_var_n.                                           *)
(***************************************************************************)
VarCalled == var_in # NoArgs

VarAt(a) == calculate_var_n(a.position, a.c, a.mu, a.sigma, a.n)

MonotoneInC ==
    \A c2 \in ConfLevels :
        c2 >= var_in.c => VarAt([var_in EXCEPT !.c = c2]) >= var_out

MonotoneInSigma ==
    \A s2 \in 0..MaxSigma :
        s2 >= var_in.sigma => VarAt([var_in EXCEPT !.sigma = s2]) >= var_out

LinearInS ==
    \A k \in 1..MaxK :
        VarAt([var_in EXCEPT !.position = k * var_in.position]) = k * var_out

\* C9 as stated: the parametric VaR is non-decreasing in sigma and in c
\* for every S > 0, sigma >= 0, n >= 1 and every c in (0,1), and linear
\* in S.
C9_Original ==
    VarCalled => (MonotoneInC /\ MonotoneInSigma /\ LinearInS)

\* C9 amended: the parametric VaR is non-decreasing in c for every c in
\* (0,1), non-decreasing in sigma when c >= 0.5 (where the normal quantile
\* z_c is non-negative), and linear in S.
C9_Amended ==
    VarCalled =>
        /\ MonotoneInC
        /\ (var_in.c >= 50 => MonotoneInSigma)
        /\ LinearInS

\* C9 witness: a call at 99% confidence whose VaR strictly grows with the
\* next larger sigma and with the position doubled.
C9_Witness ==
    /\ VarCalled
    /\ var_in.c = 99 /\ var_in.sigma = 1 /\ var_in.mu = 1 /\ var_in.n = 2
    /\ VarAt([var_in EXCEPT !.sigma = 2]) > var_out
    /\ var_out > VarAt([var_in EXCEPT !.c = 95])
    /\ var_out > 0

(***************************************************************************)
(* Claims about ValueAtRiskMonteCarlo.                                     *)
(***************************************************************************)
InvalidMC(m) ==
    m.sigma < 0 \/ m.c <= 0 \/ m.c >= 100 \/ m.n <= 0 \/ m.iterations < 1

\* C2: constructing ValueAtRiskMonteCarlo and calling simulation fails with
\* an invalid-input error, and returns no VaR number, whenever sigma < 0, or
\* c is not strictly between 0 and 1, or n <= 0, or the iteration count < 1.
\* (Any exception is counted as the invalid-input error, and a NaN result as
\* no VaR number.)
C2_InvalidInputsRejected ==
    \A i \in 1..Len(mc_runs) :
        InvalidMC(mc_model) =>
            (mc_runs[i].status # "ok" \/ mc_runs[i].value.tag = "nan")

\* C8: the estimator takes a seed from its caller, and two invocations of
\* simulation with identical inputs and the same seed return identical
\* results, whatever other random draws happened before or between them.
\* (The constructor and simulation() take no seed, so any two calls on one
\* object are calls with identical inputs and the same seed; the check is
\* made on the objects with valid inputs.)
C8_SameInputsSameResult ==
    (Len(mc_runs) >= 2 /\ ~InvalidMC(mc_model)) => mc_runs[1] = mc_runs[2]

(***************************************************************************)
(* Claims about the download helpers.                                      *)
(***************************************************************************)
HelperCalled == dl_call.helper # "none"

NoRows(t) == t.kind = "none" \/ t.rows = 0

AdjCols(stock, t) ==
    IF t.kind = "multi" THEN {<<"Adj Close", stock>>, <<stock, "Adj Close">>} \cap t.cols
    ELSE {<<"Adj Close">>} \cap t.cols

CloseCols(stock, t) ==
    IF t.kind = "multi" THEN {<<"Close", stock>>, <<stock, "Close">>} \cap t.cols
    ELSE {<<"Close">>} \cap t.cols

\* C3, for download_data of VaR.py and VarMonteCarlo.py: no rows is one
\* error, a missing price field is another.
HelperErrorsDistinct ==
    HelperCalled =>
        /\ NoRows(dl_call.ticker) => dl_result.status = "ValueError"
        /\ (~NoRows(dl_call.ticker)
              /\ AdjCols(dl_call.stock, dl_call.ticker) = {}
              /\ CloseCols(dl_call.stock, dl_call.ticker) = {})
            => dl_result.status = "KeyError"

\* C3, for download_data of markowitz.py: a history with no rows or without
\* its price field ends the call with an error, and no substitute series is
\* ever stored.
MarkowitzErrorsPropagate ==
    \A i \in 1..Len(mk_data) :
        /\ mk_data[i].field # "empty"
        /\ mk_data[i].hist_rows > 0

\* C3: every market-data download helper propagates the two data-source
\* failures as distinct errors (no rows: a no-data error; expected price
\* field missing: an ambiguous-field error) and never collapses them or
\* recovers locally and continues with a substitute series.
C3_DownloadErrorsPropagate ==
    HelperErrorsDistinct /\ MarkowitzErrorsPropagate

\* C10: for every non-empty downloaded table, flat or hierarchical in
\* either key order, download_data returns the 'Adj Close' series of the
\* ticker whenever one is present and the 'Close' series only when no
\* 'Adj Close' series of the ticker exists; the result is a single column
\* named with the ticker.
C10_AdjClosePreferred ==
    (HelperCalled /\ ~NoRows(dl_call.ticker)) =>
        LET adj == AdjCols(dl_call.stock, dl_call.ticker)
            close == CloseCols(dl_call.stock, dl_call.ticker)
        IN  /\ adj # {} =>
                  /\ dl_result.status = "ok"
                  /\ dl_result.frame.col \in adj
            /\ (adj = {} /\ close # {}) =>
                  /\ dl_result.status = "ok"
                  /\ dl_result.frame.col \in close
            /\ dl_result.status = "ok" =>
                  /\ dl_result.frame.name = dl_call.stock
                  /\ dl_result.frame.rows = dl_call.ticker.rows
                  /\ dl_result.frame.col \in adj \cup close

\* C10 witness: a (ticker, field) frame holding both price fields of the
\* ticker, from which the 'Adj Close' column was returned.
C10_Witness ==
    /\ HelperCalled
    /\ dl_call.ticker.kind = "multi" /\ dl_call.ticker.rows > 0
    /\ <<dl_call.stock, "Adj Close">> \in dl_call.ticker.cols
    /\ <<dl_call.stock, "Close">> \in dl_call.ticker.cols
    /\ dl_result.status = "ok"
    /\ dl_result.frame.col = <<dl_call.stock, "Adj Close">>

(***************************************************************************)
(* Claims about generate_portfolios.                                       *)
(***************************************************************************)
ValidWeights(w) ==
    /\ \A i \in 1..Len(w) :
           w[i].tag = "fin" /\ 0 <= w[i].num /\ w[i].num <= w[i].den
    /\ \A i \in 1..Len(w) : w[i].den = w[1].den
    /\ SumSeq([i \in 1..Len(w) |-> w[i].num]) = w[1].den

\* C6: every weight vector emitted by generate_portfolios, for every trial
\* and every outcome of the uniform draws (each in [0,1), 0 included), has
\* all entries in [0,1] and entries summing to 1 within 1e-9.
C6_WeightsOnSimplex ==
    \A i \in 1..Len(gp_weights) : ValidWeights(gp_weights[i])

(***************************************************************************)
(* Claims about optimize_portfolio and print_optimal_portfolio.            *)
(***************************************************************************)
Feasible(x) == SumSeq(x.nums) = x.den

AbsDiff(a, b) == IF a >= b THEN a - b ELSE b - a

InUnitInterval(weights) ==
    \A i \in 1..Len(weights) : 0 <= weights[i] /\ weights[i] <= 1000

\* C4: when the solver reports that it did not converge, the driver
\* surfaces an optimization-did-not-converge error and never reports the
\* solver's vector as the optimal portfolio (nothing is printed or written).
C4_NoReportWithoutConvergence ==
    (optimum.called /\ ~optimum.success) =>
        (~printed.done /\ opt_summary = <<>>)

\* C7 as stated: the reported weights (the solver's vector after round(3))
\* are each in [0,1] and sum to 1 within 1e-9, for every feasible vector
\* the solver can return.
C7_Original ==
    (printed.done /\ optimum.success /\ Feasible(optimum.x)) =>
        /\ InUnitInterval(printed.weights)
        /\ SumSeq(printed.weights) = 1000

\* C7 amended: the reported weights are each in [0,1] and sum to 1 within
\* 0.0005 per asset (half a unit of the third decimal for each weight).
C7_Amended ==
    (printed.done /\ optimum.success /\ Feasible(optimum.x)) =>
        /\ InUnitInterval(printed.weights)
        /\ 2 * AbsDiff(SumSeq(printed.weights), 1000) <= Len(printed.weights)

\* C7 witness: a feasible vector whose rounded weights no longer sum to 1.
C7_Witness ==
    /\ printed.done /\ Feasible(optimum.x) /\ optimum.success
    /\ SumSeq(printed.weights) = 999
====
